---- MODULE Spec2Model ----
(***************************************************************************)
(* Model of the japanese-word-display extension (src/src/extension.ts):    *)
(* the JapaneseWordManager store (words, currentWord, updateInterval), its *)
(* asynchronous load with the hardcoded fallback, the three distractor     *)
(* samplers, the quiz question builder and the example-sentence quiz.      *)
(*                                                                         *)
(* JavaScript runs every callback to completion, so one action is one      *)
(* event-loop job together with the promise continuations it triggers.     *)
(* Math.random() is a nondeterministic choice: an operator that uses it    *)
(* returns the set of all results the code can produce.                    *)
(***************************************************************************)
EXTENDS Integers, Sequences, FiniteSets, TLC

VARIABLES
    words,            \* JapaneseWordManager.words
    currentWord,      \* JapaneseWordManager.currentWord
    updateInterval,   \* JapaneseWordManager.updateInterval
    activeIntervals,  \* number of live setInterval timers of the host
    disposed,         \* dispose() has run
    request,          \* the http(s) request of makeApiRequest
    promise,          \* the promise returned by makeApiRequest
    response,         \* the body the load was resolved with, if any
    loadResult,       \* how loadVocabularyData() completed
    warnings,         \* calls of showErrorMessage made by loadVocabularyData
    autoUpdateStarts, \* calls of startAutoUpdate()
    lastOp            \* the last query / quiz operation and what it returned

vars == <<words, currentWord, updateInterval, activeIntervals, disposed,
          request, promise, response, loadResult, warnings,
          autoUpdateStarts, lastOp>>

----------------------------------------------------------------------------
(* Bounds of the model *)

\* most words one remote payload carries
MaxWords == 4
\* largest count passed to a sampler called directly
MaxCount == 3

----------------------------------------------------------------------------
(* Values *)

Null == [null |-> TRUE]
Undefined == "undefined"
NoResponse == [parses |-> FALSE, success |-> FALSE,
               data |-> [defined |-> FALSE, entries |-> <<>>]]

\* a field declared `string | string[]`
Scalar(s) == [isArray |-> FALSE, items |-> <<s>>]
Arr(ss) == [isArray |-> TRUE, items |-> ss]

Example(j, c) == [japanese |-> j, chinese |-> c]

Word(id, japanese, reading, chinese, level, examples) ==
    [id |-> id, japanese |-> japanese, reading |-> reading,
     chinese |-> chinese, level |-> level, examples |-> examples]

\* Array.isArray(f) ? f[0] : f     (f[0] of an empty array is undefined)
First(f) ==
    IF f.isArray
    THEN IF Len(f.items) > 0 THEN f.items[1] ELSE Undefined
    ELSE f.items[1]

\* the three fixed words of loadDefaultWords (strings transliterated)
DefaultWords ==
    << Word("1", Scalar("gakkou_k"), Scalar("gakkou"), Arr(<<"school">>), "N5", <<>>),
       Word("2", Scalar("benkyou_k"), Scalar("benkyou"), Arr(<<"study", "read">>), "N4", <<>>),
       Word("3", Scalar("sensei_k"), Scalar("sensei"), Arr(<<"teacher">>), "N5", <<>>) >>

\* raw records a remote payload is made of; the second and third share their
\* first reading and first meaning, the first and last have no examples
Catalogue ==
    << Word("c", Scalar("kawa_k"), Scalar("kawa"), Arr(<<"river">>), "", <<>>),
       Word("a", Arr(<<"hashi_k", "hashi_v">>), Arr(<<"hashi">>),
            Arr(<<"bridge", "span">>), "", << Example("s1", "t1") >>),
       Word("b", Scalar("hashi2_k"), Scalar("hashi"), Scalar("bridge"), "",
            << Example("s2", "t2"), Example("s3", "t3") >>),
       Word("d", Scalar("umi_k"), Arr(<<"umi">>), Arr(<<>>), "", <<>>),
       Word("e", Scalar("yama_k"), Scalar("yama"), Arr(<<"mountain">>), "",
            << Example("s4", "t4") >>) >>

\* one [level, levelWords] pair of Object.entries(response.data)
Entry(level, ws) == [level |-> level, isArray |-> TRUE, words |-> ws]
NotArray(level) == [level |-> level, isArray |-> FALSE, words |-> <<>>]
Data(entries) == [defined |-> TRUE, entries |-> entries]
NoData == [defined |-> FALSE, entries |-> <<>>]

\* a VocabularyResponse body: two levels holding a contiguous run of the catalogue
GoodBodies ==
    { [parses |-> TRUE, success |-> TRUE,
       data |-> Data(<< Entry("N5", SubSeq(Catalogue, s, m)),
                        Entry("N4", SubSeq(Catalogue, m + 1, e)) >>)] :
        <<s, m, e>> \in { t \in (1..Len(Catalogue)) \X (0..Len(Catalogue)) \X (0..Len(Catalogue)) :
                            /\ t[1] - 1 <= t[2] /\ t[2] <= t[3]
                            /\ t[3] - t[1] + 1 <= MaxWords
                            /\ (t[3] - t[1] + 1 = 0 => t[1] = 1) } }

\* bodies that are not a well-formed vocabulary: unparsable text, success
\* false, no data member, an empty data object, a level that is no array
OddBodies ==
    { [parses |-> FALSE, success |-> FALSE, data |-> NoData],
      [parses |-> TRUE, success |-> FALSE, data |-> NoData],
      [parses |-> TRUE, success |-> TRUE, data |-> NoData],
      [parses |-> TRUE, success |-> TRUE, data |-> Data(<<>>)],
      [parses |-> TRUE, success |-> TRUE,
       data |-> Data(<< Entry("N5", SubSeq(Catalogue, 1, 1)), NotArray("N4") >>)] }

Bodies == GoodBodies \cup OddBodies

StatusCodes == {200, 500}

----------------------------------------------------------------------------
(* Sequence helpers *)

Includes(s, v) == \E k \in 1..Len(s) : s[k] = v

\* faulty variant: s.splice(i), which removes every element from i to the end
SpliceToEnd(s, i) == SubSeq(s, 1, i - 1)

\* s.splice(i, 1)
Splice(s, i) == SubSeq(s, 1, i - 1) \o SubSeq(s, i + 1, Len(s))

Swap(s, i, j) == [s EXCEPT ![i] = s[j], ![j] = s[i]]

----------------------------------------------------------------------------
(* loadVocabularyData *)

\* faulty variant: the words of the first level only
CollectWordsOfFirstLevel(entries) ==
    IF entries = <<>>
    THEN <<>>
    ELSE [i \in 1..Len(Head(entries).words) |->
              [Head(entries).words[i] EXCEPT !.level = Head(entries).level]]

\* Object.entries(response.data).forEach(... this.words.push({...word, level}))
RECURSIVE CollectWords(_)
CollectWords(entries) ==
    IF entries = <<>>
    THEN <<>>
    ELSE [i \in 1..Len(Head(entries).words) |->
              [Head(entries).words[i] EXCEPT !.level = Head(entries).level]]
         \o CollectWords(Tail(entries))

\* the try block throws: the awaited promise rejected, JSON.parse failed,
\* success is false, Object.entries(undefined) or levelWords.forEach failed
LoadThrows(settled, body) ==
    \/ settled = "rejected"
    \/ ~body.parses
    \/ ~body.success
    \/ ~body.data.defined
    \/ \E k \in 1..Len(body.data.entries) : ~body.data.entries[k].isArray

\* this.words when loadVocabularyData() returns
WordsAfterLoad(settled, body) ==
    IF LoadThrows(settled, body)
    THEN DefaultWords
    ELSE CollectWords(body.data.entries)

\* showErrorMessage calls of one run of loadVocabularyData
WarningsOfLoad(settled, body) == IF LoadThrows(settled, body) THEN 1 ELSE 0

\* faulty variant: an index one past the end can be drawn
GetRandomWordPastEnd(ws) ==
    IF Len(ws) = 0 THEN {Null} ELSE { ws[i] : i \in 1..Len(ws) } \cup {Null}

\* getRandomWord: the words Math.random() can select, null for an empty store
GetRandomWord(ws) ==
    IF Len(ws) = 0 THEN {Null} ELSE { ws[i] : i \in 1..Len(ws) }

\* faulty variant: a callback in place of the promise: every reject runs the handler
ContinuationRunsOnEveryCall(p) == TRUE

\* a promise settles once: resolve / reject on a settled promise do nothing,
\* so the code after the await runs for the first settlement only
ContinuationRuns(p) == p = "pending"

\* faulty variant: startAutoUpdate() only arms the interval, so that the first
\* word is picked by the first tick
SettleWithoutFirstUpdate(settled, body) ==
    IF ContinuationRuns(promise)
    THEN /\ promise' = settled
         /\ response' = IF settled = "resolved" THEN body ELSE NoResponse
         /\ words' = WordsAfterLoad(settled, body)
         /\ warnings' = warnings + WarningsOfLoad(settled, body)
         /\ loadResult' = IF LoadThrows(settled, body) THEN "fallback" ELSE "loaded"
         /\ currentWord' = currentWord
         /\ updateInterval' = "timer"
         /\ activeIntervals' = activeIntervals + 1
         /\ autoUpdateStarts' = autoUpdateStarts + 1
    ELSE UNCHANGED <<promise, response, words, warnings, loadResult, currentWord,
                     updateInterval, activeIntervals, autoUpdateStarts>>

\* resolve(data) / reject(error), then the jobs the settlement queues: the
\* rest of loadVocabularyData and the .then callback, startAutoUpdate()
Settle(settled, body) ==
    IF ContinuationRuns(promise)
    THEN /\ promise' = settled
         /\ response' = IF settled = "resolved" THEN body ELSE NoResponse
         /\ words' = WordsAfterLoad(settled, body)
         /\ warnings' = warnings + WarningsOfLoad(settled, body)
         /\ loadResult' = IF LoadThrows(settled, body) THEN "fallback" ELSE "loaded"
         /\ currentWord' \in GetRandomWord(words')
         /\ updateInterval' = "timer"
         /\ activeIntervals' = activeIntervals + 1
         /\ autoUpdateStarts' = autoUpdateStarts + 1
    ELSE UNCHANGED <<promise, response, words, warnings, loadResult, currentWord,
                     updateInterval, activeIntervals, autoUpdateStarts>>

\* res.on('end'): resolve on status 200, reject otherwise
ResponseEnd ==
    /\ request = "inflight"
    /\ request' = "ended"
    /\ \E status \in StatusCodes, body \in Bodies :
          Settle(IF status = 200 THEN "resolved" ELSE "rejected", body)
    /\ UNCHANGED <<disposed, lastOp>>

\* req.on('error'): a network error, or the error the request emits once
\* the timeout handler has destroyed it
RequestError ==
    /\ request \in {"inflight", "destroyed"}
    /\ request' = IF request = "destroyed" THEN "closed" ELSE "failed"
    /\ Settle("rejected", NoResponse)
    /\ UNCHANGED <<disposed, lastOp>>

\* req.setTimeout(5000, ...): req.destroy(), then reject
RequestTimeout ==
    /\ request = "inflight"
    /\ request' = "destroyed"
    /\ Settle("rejected", NoResponse)
    /\ UNCHANGED <<disposed, lastOp>>

----------------------------------------------------------------------------
(* Distractor samplers: getRandomMeanings / getRandomReadings / getRandomWords *)

Projections == {"chinese", "reading", "japanese"}

\* Array.isArray(w.f) ? w.f[0] : w.f  for the field a sampler projects
Project(w, projection) ==
    CASE projection = "chinese" -> First(w.chinese)
      [] projection = "reading" -> First(w.reading)
      [] projection = "japanese" -> First(w.japanese)

\* this.words.filter(word => word.id !== excludeId)
Filter(ws, excludeId) == SelectSeq(ws, LAMBDA w : w.id # excludeId)

\* faulty variant: the loop without the includes() test
RECURSIVE SampleLoopWithoutIncludes(_, _, _, _, _)
SampleLoopWithoutIncludes(otherWords, values, projection, count, iterations) ==
    IF Len(values) < count /\ Len(otherWords) > 0
    THEN UNION { SampleLoopWithoutIncludes(Splice(otherWords, i),
                            Append(values, Project(otherWords[i], projection)),
                            projection, count, iterations + 1) :
                 i \in 1..Len(otherWords) }
    ELSE { [values |-> values, iterations |-> iterations, otherWords |-> otherWords] }

\* the while loop of a sampler: every run Math.random() allows, as
\* [values returned, iterations made, otherWords left].  The words of a store
\* are distinct objects, so indexOf(randomWord) is the drawn index.
RECURSIVE SampleLoop(_, _, _, _, _)
SampleLoop(otherWords, values, projection, count, iterations) ==
    IF Len(values) < count /\ Len(otherWords) > 0
    THEN UNION { SampleLoop(Splice(otherWords, i),
                            IF Includes(values, Project(otherWords[i], projection))
                            THEN values
                            ELSE Append(values, Project(otherWords[i], projection)),
                            projection, count, iterations + 1) :
                 i \in 1..Len(otherWords) }
    ELSE { [values |-> values, iterations |-> iterations, otherWords |-> otherWords] }

GetRandomMeanings(ws, excludeId, count) ==
    SampleLoop(Filter(ws, excludeId), <<>>, "chinese", count, 0)

GetRandomReadings(ws, excludeId, count) ==
    SampleLoop(Filter(ws, excludeId), <<>>, "reading", count, 0)

GetRandomWords(ws, excludeId, count) ==
    SampleLoop(Filter(ws, excludeId), <<>>, "japanese", count, 0)

Sampler(ws, projection, excludeId, count) ==
    CASE projection = "chinese" -> GetRandomMeanings(ws, excludeId, count)
      [] projection = "reading" -> GetRandomReadings(ws, excludeId, count)
      [] projection = "japanese" -> GetRandomWords(ws, excludeId, count)

----------------------------------------------------------------------------
(* Quiz questions: generateQuizQuestion, showExampleQuiz *)

QuestionTypes == {"meaning", "reading", "word"}

\* wrong answers a quiz asks its sampler for
DistractorCount == 3

\* the projection a question type answers with and samples distractors from
ProjectionOf(questionType) ==
    CASE questionType = "meaning" -> "chinese"
      [] questionType = "reading" -> "reading"
      [] questionType = "word" -> "japanese"

\* the interpolated part of questionText
SubjectOf(targetWord, questionType) ==
    IF questionType = "word" THEN First(targetWord.chinese)
                             ELSE First(targetWord.japanese)

\* faulty variant: isCorrect computed by comparing the text with the correct answer
MakeOptionsByText(correctAnswer, wrongAnswers) ==
    << [text |-> correctAnswer, isCorrect |-> TRUE] >> \o
    [k \in 1..Len(wrongAnswers) |->
        [text |-> wrongAnswers[k], isCorrect |-> wrongAnswers[k] = correctAnswer]]

\* [{text: correctAnswer, isCorrect: true}, ...wrongAnswers.map(...)]
MakeOptions(correctAnswer, wrongAnswers) ==
    << [text |-> correctAnswer, isCorrect |-> TRUE] >> \o
    [k \in 1..Len(wrongAnswers) |-> [text |-> wrongAnswers[k], isCorrect |-> FALSE]]

\* faulty variant: options[i] = options[j] in place of the swap
RECURSIVE FisherYatesOverwriting(_, _)
FisherYatesOverwriting(options, i) ==
    IF i > 1
    THEN UNION { FisherYatesOverwriting([options EXCEPT ![i] = options[j]], i - 1) :
                 j \in 1..i }
    ELSE {options}

\* for (i = length - 1; i > 0; i--) { j = floor(random * (i + 1)); swap(i, j) }
\* with positions counted from 1: i from Len down to 2, j in 1..i
RECURSIVE FisherYates(_, _)
FisherYates(options, i) ==
    IF i > 1
    THEN UNION { FisherYates(Swap(options, i, j), i - 1) : j \in 1..i }
    ELSE {options}

Shuffle(options) == FisherYates(options, Len(options))

\* the questions generateQuizQuestion can return for one target and type
QuestionsFor(ws, targetWord, questionType) ==
    LET correctAnswer == Project(targetWord, ProjectionOf(questionType))
        runs == Sampler(ws, ProjectionOf(questionType), targetWord.id, DistractorCount)
    IN  UNION { { [questionText |-> [template |-> questionType,
                                     subject |-> SubjectOf(targetWord, questionType)],
                   options |-> options,
                   correctAnswer |-> correctAnswer,
                   targetWord |-> targetWord] :
                  options \in Shuffle(MakeOptions(correctAnswer, run.values)) } :
                run \in runs }

\* the two early returns of generateQuizQuestion: getWordsCount() === 0, and
\* getRandomWordForQuiz() returning null
QuizReturnsNull(ws) == Len(ws) = 0 \/ Null \in GetRandomWord(ws)

\* generateQuizQuestion(): null, or the questions it can return
GenerateQuizQuestion(ws) ==
    IF QuizReturnsNull(ws)
    THEN {Null}
    ELSE UNION { QuestionsFor(ws, targetWord, questionType) :
                 targetWord \in GetRandomWord(ws), questionType \in QuestionTypes }

\* faulty variant: the filter tests word.examples alone, and an empty array is truthy
GetWordsWithExamplesTruthy(ws) == ws

\* getWordsWithExamples(): an absent examples member is the empty sequence
GetWordsWithExamples(ws) == SelectSeq(ws, LAMBDA w : Len(w.examples) > 0)

\* the quick pick showExampleQuiz can present for one target word
ExampleQuestionsFor(ws, targetWord) ==
    LET correctAnswer == First(targetWord.chinese)
    IN  UNION { { [questionText |-> [template |-> "example",
                                     subject |-> First(targetWord.japanese),
                                     sentence |-> targetWord.examples[x].japanese,
                                     translation |-> targetWord.examples[x].chinese],
                   options |-> options,
                   correctAnswer |-> correctAnswer,
                   targetWord |-> targetWord] :
                  options \in Shuffle(MakeOptions(correctAnswer, run.values)),
                  x \in 1..Len(targetWord.examples) } :
                run \in GetRandomMeanings(ws, targetWord.id, DistractorCount) }

\* showExampleQuiz(): the warning, the information message or a quick pick
ExampleQuizShows(ws) ==
    IF Len(ws) = 0 THEN "loadFirst"
    ELSE IF Len(GetWordsWithExamples(ws)) = 0 THEN "noExamples"
    ELSE "question"

\* the questions showExampleQuiz can present
ExampleQuestions(ws) ==
    IF ExampleQuizShows(ws) = "question"
    THEN UNION { ExampleQuestionsFor(ws, GetWordsWithExamples(ws)[k]) :
                 k \in 1..Len(GetWordsWithExamples(ws)) }
    ELSE {}

\* startQuiz(): gated on currentWord, then on generateQuizQuestion()
StartQuizShows(ws, current) ==
    IF current = Null THEN "loadFirst"
    ELSE IF QuizReturnsNull(ws) THEN "cannotGenerate"
    ELSE "question"

----------------------------------------------------------------------------
(* The state machine *)

NoOp == [op |-> "none", seen |-> <<>>]

\* activate() has returned: the manager is constructed, the request is in flight
Init ==
    /\ words = <<>>
    /\ currentWord = Null
    /\ updateInterval = "null"
    /\ activeIntervals = 0
    /\ disposed = FALSE
    /\ request = "inflight"
    /\ promise = "pending"
    /\ response = NoResponse
    /\ loadResult = "none"
    /\ warnings = 0
    /\ autoUpdateStarts = 0
    /\ lastOp = NoOp

loadVars == <<request, promise, response, loadResult, warnings, autoUpdateStarts>>
timerVars == <<updateInterval, activeIntervals, disposed>>

\* updateStatusBar(): this.currentWord = this.getRandomWord()
UpdateStatusBar ==
    /\ currentWord' \in GetRandomWord(words)
    /\ lastOp' = [op |-> "updateStatusBar", seen |-> words]
    /\ UNCHANGED <<words, loadVars, timerVars>>

\* the refreshWord command
RefreshWord ==
    /\ ~disposed
    /\ UpdateStatusBar

\* the setInterval callback of startAutoUpdate
TimerTick ==
    /\ activeIntervals > 0
    /\ UpdateStatusBar

\* ids a sampler is called with: those of the stored words and one of no word
ExcludeIds(ws) == { ws[i].id : i \in 1..Len(ws) } \cup {"zz"}

\* faulty variant: the sampler works on this.words itself, not on a filtered copy
SampleCallOnStore(projection) ==
    /\ ~disposed
    /\ \E excludeId \in ExcludeIds(words), count \in 0..MaxCount :
          \E run \in SampleLoop(words, <<>>, projection, count, 0) :
              /\ words' = run.otherWords
              /\ lastOp' = [op |-> "sample", seen |-> words, projection |-> projection,
                            excludeId |-> excludeId, count |-> count]
    /\ UNCHANGED <<currentWord, loadVars, timerVars>>

\* a call of getRandomMeanings / getRandomReadings / getRandomWords; what it
\* can return is Sampler(seen, projection, excludeId, count)
SampleCall(projection) ==
    /\ ~disposed
    /\ \E excludeId \in ExcludeIds(words), count \in 0..MaxCount :
          lastOp' = [op |-> "sample", seen |-> words, projection |-> projection,
                        excludeId |-> excludeId, count |-> count]
    /\ UNCHANGED <<words, currentWord, loadVars, timerVars>>

\* getWordsCount(); the record keeps how far the load was when it was called
GetWordsCount ==
    /\ ~disposed
    /\ lastOp' = [op |-> "getWordsCount", seen |-> words, count |-> Len(words),
                  load |-> loadResult]
    /\ UNCHANGED <<words, currentWord, loadVars, timerVars>>

\* getRandomWordForQuiz()
GetRandomWordForQuiz ==
    /\ ~disposed
    /\ \E w \in GetRandomWord(words) :
          lastOp' = [op |-> "getRandomWordForQuiz", seen |-> words, word |-> w]
    /\ UNCHANGED <<words, currentWord, loadVars, timerVars>>

\* a call of generateQuizQuestion(); what it can return is GenerateQuizQuestion(seen)
GenerateQuizQuestionCall ==
    /\ ~disposed
    /\ lastOp' = [op |-> "generateQuizQuestion", seen |-> words,
                  returned |-> IF QuizReturnsNull(words) THEN "null" ELSE "question"]
    /\ UNCHANGED <<words, currentWord, loadVars, timerVars>>

\* the startQuiz command, up to the message or quick pick it shows; the
\* questions the quick pick can hold are GenerateQuizQuestion(seen)
StartQuiz ==
    /\ ~disposed
    /\ lastOp' = [op |-> "startQuiz", seen |-> words, current |-> currentWord,
                  shown |-> StartQuizShows(words, currentWord)]
    /\ UNCHANGED <<words, currentWord, loadVars, timerVars>>

\* the showExamples command, up to the message or quick pick it shows; the
\* questions the quick pick can hold are ExampleQuestions(seen)
ShowExampleQuiz ==
    /\ ~disposed
    /\ lastOp' = [op |-> "showExampleQuiz", seen |-> words,
                  shown |-> ExampleQuizShows(words)]
    /\ UNCHANGED <<words, currentWord, loadVars, timerVars>>

\* dispose(): stopAutoUpdate()
Dispose ==
    /\ ~disposed
    /\ disposed' = TRUE
    /\ IF updateInterval # "null"
       THEN /\ activeIntervals' = activeIntervals - 1
            /\ updateInterval' = "null"
       ELSE UNCHANGED <<updateInterval, activeIntervals>>
    /\ UNCHANGED <<words, currentWord, loadVars, lastOp>>

Next ==
    \/ ResponseEnd
    \/ RequestError
    \/ RequestTimeout
    \/ RefreshWord
    \/ TimerTick
    \/ \E projection \in Projections : SampleCall(projection)
    \/ GetWordsCount
    \/ GetRandomWordForQuiz
    \/ GenerateQuizQuestionCall
    \/ StartQuiz
    \/ ShowExampleQuiz
    \/ Dispose

Spec == Init /\ [][Next]_vars

----------------------------------------------------------------------------
(* Claims about the load *)

LoadCompleted == loadResult # "none"

\* C1: whenever loadVocabularyData() has completed, whatever the fetch
\* produced, the collection is not empty, and after a failure it is the
\* fallback set of exactly 3 words with ids "1", "2", "3"
C1_LoadNeverLeavesEmpty ==
    LoadCompleted =>
        /\ Len(words) > 0
        /\ loadResult = "fallback" =>
              /\ Len(words) = 3
              /\ <<words[1].id, words[2].id, words[3].id>> = <<"1", "2", "3">>

\* C2: on every failure path of the load the fallback is installed
\* (count() = 3), showErrorMessage has been called exactly once, the load
\* returned normally and startAutoUpdate() has been called after it
C2_FailedLoadWarnsOnce ==
    (promise = "rejected" \/ loadResult = "fallback") =>
        /\ loadResult = "fallback"
        /\ Len(words) = 3
        /\ words = DefaultWords
        /\ warnings = 1
        /\ autoUpdateStarts = 1

\* the timeout destroyed the request, whose error handler then rejected again
C2_Witness ==
    /\ request = "closed"
    /\ promise = "rejected"
    /\ warnings = 1
    /\ Len(words) = 3

RECURSIVE TotalWords(_)
TotalWords(entries) ==
    IF entries = <<>> THEN 0 ELSE Len(Head(entries).words) + TotalWords(Tail(entries))

\* ws holds every word of every level of the body, in order, with its level
IsCompleteSetOf(ws, body) ==
    /\ body.parses /\ body.success /\ body.data.defined
    /\ \A k \in 1..Len(body.data.entries) : body.data.entries[k].isArray
    /\ Len(ws) = TotalWords(body.data.entries)
    /\ \A k \in 1..Len(body.data.entries) :
          \A i \in 1..Len(body.data.entries[k].words) :
              LET at == TotalWords(SubSeq(body.data.entries, 1, k - 1)) + i
              IN  /\ ws[at].level = body.data.entries[k].level
                  /\ [ws[at] EXCEPT !.level = ""] =
                         [body.data.entries[k].words[i] EXCEPT !.level = ""]

WholeCollection(ws) ==
    \/ ws = <<>>
    \/ ws = DefaultWords
    \/ IsCompleteSetOf(ws, response)

\* C3: the collection a handler finds when it starts, and the collection the
\* last selection / count / sampling / quiz / refresh step read, is the
\* empty pre-load collection, the complete set of the remote payload, or the
\* complete fallback set: never a partially populated one
C3_NoPartialCollection ==
    /\ WholeCollection(words)
    /\ WholeCollection(lastOp.seen)
    /\ (~LoadCompleted => lastOp.seen = <<>>)

\* a quiz was built on the complete two-level remote set
C3_Witness ==
    /\ lastOp.op = "startQuiz"
    /\ loadResult = "loaded"
    /\ Len(lastOp.seen) = 3
    /\ lastOp.seen[1].level = "N5" /\ lastOp.seen[3].level = "N4"

----------------------------------------------------------------------------
(* Claims about the samplers *)

Min(a, b) == IF a < b THEN a ELSE b

NoDuplicates(s) == \A i, j \in 1..Len(s) : i # j => s[i] # s[j]

Values(s) == { s[k] : k \in 1..Len(s) }

\* what the sampler call recorded in lastOp can return
SampleRuns == Sampler(lastOp.seen, lastOp.projection, lastOp.excludeId, lastOp.count)

\* C4: no value a sampler returns equals the projected value of the word
\* whose id is excludeId
C4_ExcludedValueNeverReturned ==
    lastOp.op = "sample" =>
        \A run \in SampleRuns :
            \A i \in 1..Len(lastOp.seen) :
                lastOp.seen[i].id = lastOp.excludeId =>
                    ~Includes(run.values, Project(lastOp.seen[i], lastOp.projection))

\* the distinct projected values of the words whose id differs from excludeId
DistinctOthers(ws, projection, excludeId) ==
    { Project(ws[i], projection) : i \in { k \in 1..Len(ws) : ws[k].id # excludeId } }

\* C5: a sampler returns no duplicate value and exactly
\* min(count, distinct projected values of the other words) values, each of
\* them such a value; on the fallback set, sampling 3 meanings with "1"
\* excluded returns exactly the 2 remaining meanings
C5_SampleLength ==
    lastOp.op = "sample" =>
        /\ SampleRuns # {}
        /\ \A run \in SampleRuns :
              /\ NoDuplicates(run.values)
              /\ Len(run.values) =
                    Min(lastOp.count,
                        Cardinality(DistinctOthers(lastOp.seen, lastOp.projection,
                                                   lastOp.excludeId)))
              /\ Len(run.values) <= lastOp.count
              /\ Values(run.values) \subseteq
                    DistinctOthers(lastOp.seen, lastOp.projection, lastOp.excludeId)
              /\ ( /\ lastOp.seen = DefaultWords
                   /\ lastOp.projection = "chinese"
                   /\ lastOp.excludeId = "1"
                   /\ lastOp.count = 3 )
                 => /\ Len(run.values) = 2
                    /\ Values(run.values) = {"study", "teacher"}

\* three words of which two share their first meaning were sampled for 3
C5_Witness ==
    /\ lastOp.op = "sample"
    /\ lastOp.projection = "chinese"
    /\ lastOp.count = 3
    /\ Len(Filter(lastOp.seen, lastOp.excludeId)) = 3
    /\ Cardinality(DistinctOthers(lastOp.seen, lastOp.projection, lastOp.excludeId)) = 2

----------------------------------------------------------------------------
(* Claims about the quiz questions *)

CorrectPositions(options) == { k \in 1..Len(options) : options[k].isCorrect }

\* the questions the builder recorded in lastOp can return
BuiltQuestions ==
    IF lastOp.op = "generateQuizQuestion"
    THEN GenerateQuizQuestion(lastOp.seen) \ {Null}
    ELSE IF lastOp.op = "showExampleQuiz"
    THEN ExampleQuestions(lastOp.seen)
    ELSE {}

\* C6: every question generateQuizQuestion returns has exactly one option
\* with isCorrect, whose text is the question's correctAnswer, the first
\* element of the target's projection for the question type
C6_ExactlyOneCorrect ==
    lastOp.op = "generateQuizQuestion" =>
        \A q \in BuiltQuestions :
            /\ Cardinality(CorrectPositions(q.options)) = 1
            /\ \A k \in CorrectPositions(q.options) : q.options[k].text = q.correctAnswer
            /\ q.correctAnswer =
                  CASE q.questionText.template = "meaning" -> First(q.targetWord.chinese)
                    [] q.questionText.template = "reading" -> First(q.targetWord.reading)
                    [] q.questionText.template = "word" -> First(q.targetWord.japanese)

\* a question was built on a store where a distractor can equal the answer
C6_Witness ==
    /\ lastOp.op = "generateQuizQuestion"
    /\ lastOp.returned = "question"
    /\ \E i, j \in 1..Len(lastOp.seen) :
          /\ lastOp.seen[i].id # lastOp.seen[j].id
          /\ First(lastOp.seen[i].chinese) = First(lastOp.seen[j].chinese)

HasExamples(w) == Len(w.examples) > 0

Count(s, x) == Cardinality({ k \in 1..Len(s) : s[k] = x })

\* a sequence as a multiset: its elements with their multiplicities
BagOf(s) == { <<x, Count(s, x)>> : x \in Values(s) }

\* the correct answer followed by the distractors of one sampler run
Unshuffled(correctAnswer, run) ==
    << [text |-> correctAnswer, isCorrect |-> TRUE] >> \o
    [k \in 1..Len(run.values) |-> [text |-> run.values[k], isCorrect |-> FALSE]]

\* questions are the questions built for one target from the sampler runs:
\* the options of each are a permutation of the answer followed by the
\* distractors of one run, and every position of every such list holds the
\* answer in one of the questions
PermutationsOfRuns(questions, correctAnswer, runs) ==
    LET bags == { BagOf(Unshuffled(correctAnswer, run)) : run \in runs }
    IN  /\ questions # {}
        /\ \A q \in questions : BagOf(q.options) \in bags
        /\ \A q \in questions : \E run \in runs : Len(q.options) = 1 + Len(run.values)
        /\ \A run \in runs :
              \A position \in 1..(1 + Len(run.values)) :
                  \E q \in questions :
                      /\ Len(q.options) = 1 + Len(run.values)
                      /\ q.options[position].isCorrect
                      /\ BagOf(q.options) = BagOf(Unshuffled(correctAnswer, run))

\* C7: the options of a question (quiz or example quiz) are a permutation of
\* the correct answer followed by the distractors one run of the sampler
\* returned (so 1 + distractors many, nothing added), and whatever the run,
\* every position holds the correct answer in some question the builder can
\* return
C7_ShuffleIsPermutation ==
    /\ lastOp.op = "generateQuizQuestion" =>
          \A i \in 1..Len(lastOp.seen) :
              \A questionType \in QuestionTypes :
                  PermutationsOfRuns(
                      QuestionsFor(lastOp.seen, lastOp.seen[i], questionType),
                      Project(lastOp.seen[i], ProjectionOf(questionType)),
                      Sampler(lastOp.seen, ProjectionOf(questionType),
                              lastOp.seen[i].id, DistractorCount))
    /\ lastOp.op = "showExampleQuiz" =>
          \A i \in 1..Len(lastOp.seen) :
              HasExamples(lastOp.seen[i]) =>
                  PermutationsOfRuns(
                      ExampleQuestionsFor(lastOp.seen, lastOp.seen[i]),
                      First(lastOp.seen[i].chinese),
                      GetRandomMeanings(lastOp.seen, lastOp.seen[i].id, DistractorCount))

\* a question with the answer and three distractors was built
C7_Witness ==
    /\ lastOp.op = "generateQuizQuestion"
    /\ lastOp.returned = "question"
    /\ \E q \in BuiltQuestions : Len(q.options) = 1 + DistractorCount

\* C8: getRandomWordForQuiz returns null exactly when the collection is
\* empty and otherwise a member of it; generateQuizQuestion returns null
\* exactly when the collection is empty and otherwise a question
C8_NoneIffEmpty ==
    /\ lastOp.op = "getRandomWordForQuiz" =>
          /\ (lastOp.word = Null) <=> (Len(lastOp.seen) = 0)
          /\ lastOp.word # Null => Includes(lastOp.seen, lastOp.word)
    /\ lastOp.op = "generateQuizQuestion" =>
          /\ (lastOp.returned = "null") <=> (Len(lastOp.seen) = 0)
          /\ GenerateQuizQuestion(lastOp.seen) # {}
          /\ (Null \in GenerateQuizQuestion(lastOp.seen)) <=> (Len(lastOp.seen) = 0)
          /\ Len(lastOp.seen) = 0 => GenerateQuizQuestion(lastOp.seen) = {Null}

\* a word was picked from a store of several words
C8_Witness ==
    /\ lastOp.op = "getRandomWordForQuiz"
    /\ Len(lastOp.seen) > 1
    /\ lastOp.word = lastOp.seen[Len(lastOp.seen)]

\* the option texts marked wrong, as a set
WrongTexts(q) ==
    { q.options[k].text : k \in (1..Len(q.options)) \ CorrectPositions(q.options) }

\* the example questions for one target: each embeds one of the target's
\* own examples, answers with its first meaning and has as wrong options the
\* values of one run of getRandomMeanings(target id, 3)
ExampleQuestionsOf(ws, targetWord) ==
    LET distractorSets ==
            { Values(run.values) :
                run \in GetRandomMeanings(ws, targetWord.id, DistractorCount) }
        otherMeanings ==
            { First(ws[i].chinese) : i \in { k \in 1..Len(ws) : ws[k].id # targetWord.id } }
    IN  \A q \in ExampleQuestionsFor(ws, targetWord) :
            /\ q.targetWord = targetWord
            /\ \E x \in 1..Len(targetWord.examples) :
                  /\ q.questionText.sentence = targetWord.examples[x].japanese
                  /\ q.questionText.translation = targetWord.examples[x].chinese
            /\ q.correctAnswer = First(targetWord.chinese)
            /\ WrongTexts(q) \in distractorSets
            /\ WrongTexts(q) \subseteq otherMeanings

----------------------------------------------------------------------------
(* Frame *)

\* C10: only the completion of the load changes the collection; every other
\* step leaves it as it is, content and order, and a getWordsCount() call
\* that follows another with no load completion since agrees with it
C10_OnlyLoadChangesWords ==
    [][ /\ words' # words => (~LoadCompleted /\ LoadCompleted')
        /\ ( /\ lastOp.op = "getWordsCount"
             /\ lastOp'.op = "getWordsCount"
             /\ lastOp.load = loadResult' )
           => lastOp'.count = lastOp.count ]_vars

\* a sampler that had words to remove from its pool has run on the store
C10_Witness ==
    /\ lastOp.op = "sample"
    /\ lastOp.count > 1
    /\ Len(Filter(lastOp.seen, lastOp.excludeId)) > 1
    /\ words = lastOp.seen

-----------------------------------------------------------------------------
(* Claims about the termination of the sampling loop *)

\* the candidate pool the sampler call recorded in lastOp starts from
Pool == Filter(lastOp.seen, lastOp.excludeId)

\* C11: the sampling loop ends after at most pool-size iterations; each
\* iteration removes exactly one word from the pool, whether or not its
\* projected value was appended, so that the pool left over is the starting
\* pool less one word per iteration; the loop ends only when the result has
\* count values or the pool is exhausted
C11_SampleLoopTerminates ==
    lastOp.op = "sample" =>
        /\ SampleRuns # {}
        /\ \A run \in SampleRuns :
              /\ run.iterations <= Len(Pool)
              /\ Len(run.otherWords) = Len(Pool) - run.iterations
              /\ Values(run.otherWords) \subseteq Values(Pool)
              /\ Len(run.values) <= run.iterations
              /\ Len(run.values) = lastOp.count \/ Len(run.otherWords) = 0

\* a pool of three words, two of which collapse to the same meaning, was
\* sampled for three values: every run ends on the exhausted pool after three
\* iterations with two values
C11_Witness ==
    /\ lastOp.op = "sample"
    /\ lastOp.projection = "chinese"
    /\ lastOp.count = 3
    /\ Len(Pool) = 3
    /\ \A run \in SampleRuns :
          /\ run.iterations = 3
          /\ Len(run.values) = 2
          /\ run.otherWords = <<>>

-----------------------------------------------------------------------------
(* Claims about currentWord and the quiz gate *)

\* C12: whenever a command handler or the timer callback starts, currentWord
\* is non-null exactly when the collection is non-empty, and a non-null
\* currentWord is a word of the collection; hence a quiz requested before the
\* load has completed shows the 'load first' guidance, and no quiz shows
\* 'cannot generate': once the gate on currentWord has passed,
\* generateQuizQuestion() does not return null
C12_CurrentWordIffWords ==
    /\ currentWord # Null <=> Len(words) > 0
    /\ currentWord # Null => Includes(words, currentWord)
    /\ lastOp.op = "startQuiz" =>
          /\ lastOp.current # Null <=> Len(lastOp.seen) > 0
          /\ lastOp.current # Null => Includes(lastOp.seen, lastOp.current)
          /\ ~LoadCompleted => lastOp.shown = "loadFirst"
          /\ Len(lastOp.seen) = 0 => lastOp.shown = "loadFirst"
          /\ lastOp.shown # "cannotGenerate"
          /\ lastOp.current # Null =>
                /\ ~QuizReturnsNull(lastOp.seen)
                /\ lastOp.shown = "question"

\* a quiz was requested after the load had completed, on a store of several
\* words: the gate passed and a question was shown
C12_Witness ==
    /\ LoadCompleted
    /\ lastOp.op = "startQuiz"
    /\ lastOp.seen = words
    /\ Len(words) > 1
    /\ lastOp.current = currentWord
    /\ Includes(words, currentWord)
    /\ lastOp.shown = "question"

-----------------------------------------------------------------------------
(* Claims about the refresh timer and dispose *)

\* C13: once dispose() has run, no refresh timer is active: updateInterval
\* is null and no interval is armed, also when the load completes after the
\* dispose; and at most one interval timer exists at any time
C13_NoTimerAfterDispose ==
    /\ disposed => (updateInterval = "null" /\ activeIntervals = 0)
    /\ activeIntervals <= 1

====
